---- MODULE Spec2Model ----
(***************************************************************************)
(* Model of src/server.py: main() hands a bound socket to server(), which  *)
(* runs a select() loop over the lists inputs/outputs and the dict         *)
(* messages (socket -> Queue of chunks), echoes what it reads, and drains  *)
(* the queues when it reads 'stop' or is interrupted.                      *)
(*                                                                         *)
(* Sockets are numbers: 0 is the listening socket, 1..MaxConn the accepted *)
(* clients in accept order.  A chunk of bytes is a sequence of one-letter  *)
(* strings.  One tick of the loop is a Poll step followed by one step per  *)
(* socket in reads, then writes, then errors, as the three for-loops of    *)
(* the source run; pc = "poll" is the state between two ticks.             *)
(* The interpreter is Python 2 (the module imports Queue): socket.error    *)
(* derives from IOError, so neither `except select.error` nor              *)
(* `except OSError` catches it.                                            *)
(***************************************************************************)
EXTENDS Integers, Sequences, FiniteSets, TLC

\* ---- bounds -------------------------------------------------------------
MaxConn == 2        \* clients accepted over one run
MaxChunks == 2      \* data chunks received over one run (all clients)
MaxShort == 1       \* bytes a send() may leave untaken

\* ---- literals of the source ---------------------------------------------
server == 0

Stop == <<"s", "t", "o", "p">>

\* 'Shutdown request received'
Notice == <<"S", "h", "u", "t", "d", "o", "w", "n", " ", "r", "e", "q", "u",
            "e", "s", "t", " ", "r", "e", "c", "e", "i", "v", "e", "d">>

Payloads == {<<"a">>, <<"s", "t", "o">>, Stop}

Clients == 1..MaxConn

Socks == 0..MaxConn

VARIABLES
  pc,          \* position of the program
  inputs,      \* list `inputs`
  outputs,     \* list `outputs`
  messages,    \* dict `messages`: client -> queue of chunks
  reads,       \* part of select's `reads` not yet iterated
  writes,      \* part of select's `writes` not yet iterated
  errors,      \* part of select's `errors` not yet iterated
  drainIdx,    \* position of `for client in inputs` in the shutdown handler
  nextId,      \* next client the listener will accept
  result,      \* "none" while running, then "true" / "false" / "raised"
  exc,         \* the last exception a handler of server() caught, "none" if none
  closed,      \* socket -> number of close() calls made on it
  enq,         \* client -> chunks put on its queue, in put order
  sent,        \* client -> <<chunk, n>> per send() call: n bytes taken, 0 = raised
  atShutdown   \* the inputs, queues and send counts when the handler was entered

vars == <<pc, inputs, outputs, messages, reads, writes, errors, drainIdx,
          nextId, result, exc, closed, enq, sent, atShutdown>>

\* ---- helpers ------------------------------------------------------------
Range(s) == {s[i] : i \in 1..Len(s)}

\* select returns the ready sockets in the order of the list it was given
Ready(lst, S) == SelectSeq(lst, LAMBDA x : x \in S)

\* a removal by position: the first element goes, whatever x is
ListRemoveHead(lst, x) == IF lst = <<>> THEN lst ELSE Tail(lst)

\* list.remove(x) on a list without duplicates
ListRemove(lst, x) == SelectSeq(lst, LAMBDA y : y # x)

IsPrefix(s, t) == Len(s) <= Len(t) /\ SubSeq(t, 1, Len(s)) = s

RECURSIVE Flatten(_)
Flatten(ss) == IF ss = <<>> THEN <<>> ELSE Head(ss) \o Flatten(Tail(ss))

RECURSIVE TotalLen(_, _)
TotalLen(f, n) == IF n = 0 THEN 0 ELSE Len(f[n]) + TotalLen(f, n - 1)

Running == {"poll", "reads", "writes", "errors"}

NextPc(r, w, e) ==
  IF r # <<>> THEN "reads"
  ELSE IF w # <<>> THEN "writes"
  ELSE IF e # <<>> THEN "errors"
  ELSE "poll"

\* a queue that hands out the newest chunk first
QueueGetNewest(q) == q[Len(q)]

\* Queue.get_nowait(): the oldest chunk
QueueGet(q) == Head(q)

\* a put that jumps the queue
QueuePutFront(q, x) == <<x>> \o q

\* Queue.put(x)
QueuePut(q, x) == Append(q, x)

\* a teardown that forgets `del messages[s]`
RegistryDelForgotten(m, s) == m

\* `del messages[s]`
RegistryDel(m, s) == [k \in DOMAIN m \ {s} |-> m[k]]

\* `messages[client] = Queue()`
RegistryAdd(m, s) == [k \in DOMAIN m \cup {s} |-> IF k = s THEN <<>> ELSE m[k]]

\* a teardown that leaves the socket in outputs
OutputsDropForgotten(outs, s) == outs

\* `if s in outputs: outputs.remove(s)`
OutputsDrop(outs, s) == ListRemove(outs, s)

\* a read that queues the data without registering the socket for writing
OutputsAddNever(outs, s) == outs

\* an append without the membership test
OutputsAddAlways(outs, s) == Append(outs, s)

\* `if input not in outputs: outputs.append(input)`
OutputsAdd(outs, s) == IF s \in Range(outs) THEN outs ELSE Append(outs, s)

Close(cl, s) == [cl EXCEPT ![s] = @ + 1]

\* what socket.send(message) may return: the number of bytes it took
SendCounts(message) ==
  {n \in 1..Len(message) : n >= Len(message) - MaxShort}

\* the unwinding to `except Exception: return False`; the tick's select
\* result is dropped with the frame
ReturnFalse(e) ==
  /\ pc' = "returned"
  /\ result' = "false"
  /\ exc' = e
  /\ reads' = <<>>
  /\ writes' = <<>>
  /\ errors' = <<>>

\* a handler that logs the signal and lets the while loop go on
EnterDrainResume(e, m) ==
  /\ pc' = "poll"
  /\ exc' = e
  /\ drainIdx' = 1
  /\ reads' = <<>>
  /\ writes' = <<>>
  /\ errors' = <<>>
  /\ atShutdown' = atShutdown

\* entry of `except (KeyboardInterrupt, StopIteration)` with registry m
EnterDrain(e, m) ==
  /\ pc' = "drain"
  /\ exc' = e
  /\ drainIdx' = 1
  /\ reads' = <<>>
  /\ writes' = <<>>
  /\ errors' = <<>>
  /\ atShutdown' = [live |-> Range(inputs) \ {server},
                    q |-> [c \in Clients |-> IF c \in DOMAIN m THEN m[c] ELSE <<>>],
                    nsent |-> [c \in Clients |-> Len(sent[c])]]

\* ---- initial state: main() has bound the socket and calls server() ------
Init ==
  /\ pc = "start"
  /\ inputs = <<>>
  /\ outputs = <<>>
  /\ messages = [k \in {} |-> <<>>]
  /\ reads = <<>>
  /\ writes = <<>>
  /\ errors = <<>>
  /\ drainIdx = 0
  /\ nextId = 1
  /\ result = "none"
  /\ exc = "none"
  /\ closed = [s \in Socks |-> 0]
  /\ enq = [c \in Clients |-> <<>>]
  /\ sent = [c \in Clients |-> <<>>]
  /\ atShutdown = [live |-> {},
                   q |-> [c \in Clients |-> <<>>],
                   nsent |-> [c \in Clients |-> 0]]

\* a listen failure that is logged but not returned on
AfterListenNoReturn(ok) == "poll"

\* where server() goes after server.listen(backlog)
AfterListen(ok) == IF ok THEN "poll" ELSE "returned"

\* server.listen(backlog), then inputs = [server]
Listen ==
  /\ pc = "start"
  /\ \E ok \in BOOLEAN :
       /\ pc' = AfterListen(ok)
       /\ result' = IF ok THEN "none" ELSE "false"
       /\ exc' = IF ok THEN "none" ELSE "listen"
       /\ inputs' = IF ok THEN <<server>> ELSE inputs
  /\ UNCHANGED <<outputs, messages, reads, writes, errors, drainIdx, nextId,
                 closed, enq, sent, atShutdown>>

\* select.select(inputs, outputs, inputs, 1.0); nothing ready = `continue`
Poll ==
  /\ pc = "poll"
  /\ \E R \in SUBSET Range(inputs), W \in SUBSET Range(outputs),
        E \in SUBSET Range(inputs) :
       /\ server \in R => nextId <= MaxConn
       /\ reads' = Ready(inputs, R)
       /\ writes' = Ready(outputs, W)
       /\ errors' = Ready(inputs, E)
       /\ pc' = NextPc(reads', writes', errors')
  /\ UNCHANGED <<inputs, outputs, messages, drainIdx, nextId, result, exc,
                 closed, enq, sent, atShutdown>>

\* the errno values select.error / OSError may carry out of select
SelectErrnos == {"EAGAIN", "EINTR", "ENOMEM"}

\* a filter that lets every errno through as transient
IsTransientAlways(errno) == TRUE

\* `e.args[0] in [errno.EAGAIN, errno.EINTR]`
IsTransient(errno) == errno \in {"EAGAIN", "EINTR"}

\* select raises an error other than EAGAIN / EINTR: re-raised, return False
PollFatal ==
  /\ pc = "poll"
  /\ \E errno \in SelectErrnos :
       /\ ~IsTransient(errno)
       /\ ReturnFalse(errno)
  /\ UNCHANGED <<inputs, outputs, messages, drainIdx,
                 nextId, closed, enq, sent, atShutdown>>

\* select raises EAGAIN or EINTR: the except clause swallows it and the
\* while loop polls again
PollTransient ==
  /\ pc = "poll"
  /\ \E errno \in SelectErrnos :
       /\ IsTransient(errno)
       /\ exc' = errno
  /\ UNCHANGED <<pc, inputs, outputs, messages, reads, writes, errors,
                 drainIdx, nextId, result, closed, enq, sent, atShutdown>>

\* KeyboardInterrupt while the loop body runs
Interrupt ==
  /\ pc \in Running
  /\ EnterDrain("KeyboardInterrupt", messages)
  /\ UNCHANGED <<inputs, outputs, messages, nextId,
                 result, closed, enq, sent>>

\* ---- for input in reads ---------------------------------------------------
\* input is server: accept, inputs.append(client), messages[client] = Queue()
Accept ==
  /\ pc = "reads"
  /\ Head(reads) = server
  /\ nextId <= MaxConn
  /\ inputs' = Append(inputs, nextId)
  /\ messages' = RegistryAdd(messages, nextId)
  /\ nextId' = nextId + 1
  /\ reads' = Tail(reads)
  /\ pc' = NextPc(reads', writes, errors)
  /\ UNCHANGED <<outputs, writes, errors, drainIdx, result, exc, closed, enq,
                 sent, atShutdown>>

\* input.accept() raises socket.error (the pending client is gone)
AcceptFail ==
  /\ pc = "reads"
  /\ Head(reads) = server
  /\ ReturnFalse("accept")
  /\ UNCHANGED <<inputs, outputs, messages, drainIdx,
                 nextId, closed, enq, sent, atShutdown>>

\* a put that lands on the queue of another registered client
QueueOfOther(input) ==
  IF DOMAIN messages \ {input} = {} THEN input
  ELSE CHOOSE k \in DOMAIN messages \ {input} : TRUE

\* the key of `messages[input].put(data)`: the socket that was read
QueueOf(input) == input

\* `data is 'stop' or str(data) == 'stop'`
IsStop(data) == data = Stop

\* recv returns data other than 'stop': add to outputs, put on the queue
RecvData ==
  /\ pc = "reads"
  /\ Head(reads) # server
  /\ TotalLen(enq, MaxConn) < MaxChunks
  /\ \E data \in Payloads :
       LET c == Head(reads) IN
       /\ ~IsStop(data)
       /\ outputs' = OutputsAdd(outputs, c)
       /\ messages' = [messages EXCEPT ![QueueOf(c)] = QueuePut(@, data)]
       /\ enq' = [enq EXCEPT ![c] = Append(@, data)]
  /\ reads' = Tail(reads)
  /\ pc' = NextPc(reads', writes, errors)
  /\ UNCHANGED <<inputs, writes, errors, drainIdx, nextId, result, exc,
                 closed, sent, atShutdown>>

\* recv returns 'stop': put the notice, raise StopIteration
RecvStop ==
  /\ pc = "reads"
  /\ Head(reads) # server
  /\ \E data \in Payloads :
       LET c == Head(reads) IN
       /\ IsStop(data)
       /\ messages' = [messages EXCEPT ![c] = QueuePut(@, Notice)]
       /\ enq' = [enq EXCEPT ![c] = Append(@, Notice)]
       /\ EnterDrain("StopIteration", messages)
  /\ UNCHANGED <<inputs, outputs, nextId, result,
                 closed, sent>>

\* recv returns '': the peer closed its side
RecvEOF ==
  /\ pc = "reads"
  /\ Head(reads) # server
  /\ LET c == Head(reads) IN
       /\ outputs' = OutputsDrop(outputs, c)
       /\ inputs' = ListRemove(inputs, c)
       /\ closed' = Close(closed, c)
       /\ messages' = RegistryDel(messages, c)
  /\ reads' = Tail(reads)
  /\ pc' = NextPc(reads', writes, errors)
  /\ UNCHANGED <<writes, errors, drainIdx, nextId, result, exc, enq, sent,
                 atShutdown>>

\* recv raises socket.error (connection reset by peer)
RecvFail ==
  /\ pc = "reads"
  /\ Head(reads) # server
  /\ ReturnFalse("recv")
  /\ UNCHANGED <<inputs, outputs, messages, drainIdx,
                 nextId, closed, enq, sent, atShutdown>>

\* ---- for output in writes -----------------------------------------------
\* `if output not in messages: continue`
WriteSkip ==
  /\ pc = "writes"
  /\ Head(writes) \notin DOMAIN messages
  /\ writes' = Tail(writes)
  /\ pc' = NextPc(reads, writes', errors)
  /\ UNCHANGED <<inputs, outputs, messages, reads, errors, drainIdx, nextId,
                 result, exc, closed, enq, sent, atShutdown>>

\* get_nowait raises Empty: outputs.remove(output)
WriteEmpty ==
  /\ pc = "writes"
  /\ Head(writes) \in DOMAIN messages
  /\ messages[Head(writes)] = <<>>
  /\ outputs' = ListRemove(outputs, Head(writes))
  /\ writes' = Tail(writes)
  /\ pc' = NextPc(reads, writes', errors)
  /\ UNCHANGED <<inputs, messages, reads, errors, drainIdx, nextId, result,
                 exc, closed, enq, sent, atShutdown>>

\* get_nowait returns a chunk; output.send(message) takes n of its bytes and
\* the return value is dropped
WriteSend ==
  /\ pc = "writes"
  /\ Head(writes) \in DOMAIN messages
  /\ messages[Head(writes)] # <<>>
  /\ LET c == Head(writes)
         message == QueueGet(messages[c]) IN
       /\ messages' = [messages EXCEPT ![c] = Tail(@)]
       /\ \E n \in SendCounts(message) :
            sent' = [sent EXCEPT ![c] = Append(@, <<message, n>>)]
  /\ writes' = Tail(writes)
  /\ pc' = NextPc(reads, writes', errors)
  /\ UNCHANGED <<inputs, outputs, reads, errors, drainIdx, nextId, result,
                 exc, closed, enq, atShutdown>>

\* get_nowait returns a chunk; output.send(message) raises socket.error
WriteFail ==
  /\ pc = "writes"
  /\ Head(writes) \in DOMAIN messages
  /\ messages[Head(writes)] # <<>>
  /\ LET c == Head(writes)
         message == QueueGet(messages[c]) IN
       /\ messages' = [messages EXCEPT ![c] = Tail(@)]
       /\ sent' = [sent EXCEPT ![c] = Append(@, <<message, 0>>)]
  /\ ReturnFalse("send")
  /\ UNCHANGED <<inputs, outputs, drainIdx, nextId,
                 closed, enq, atShutdown>>

\* ---- for error in errors ------------------------------------------------
\* a connected client in the error set: drop from both lists, close, delete
ErrorEvent ==
  /\ pc = "errors"
  /\ Head(errors) # server
  /\ closed[Head(errors)] = 0
  /\ LET e == Head(errors) IN
       /\ outputs' = OutputsDrop(outputs, e)
       /\ inputs' = ListRemove(inputs, e)
       /\ closed' = Close(closed, e)
       /\ messages' = RegistryDel(messages, e)
  /\ errors' = Tail(errors)
  /\ pc' = NextPc(reads, writes, errors')
  /\ UNCHANGED <<reads, writes, drainIdx, nextId, result, exc, enq, sent,
                 atShutdown>>

\* the socket was closed by the reads loop of this tick: error.getpeername()
\* raises socket.error (EBADF) while the arguments of log.error are built
ErrorOnClosed ==
  /\ pc = "errors"
  /\ Head(errors) # server
  /\ closed[Head(errors)] > 0
  /\ ReturnFalse("EBADF")
  /\ UNCHANGED <<inputs, outputs, messages, drainIdx,
                 nextId, closed, enq, sent, atShutdown>>

\* the listener in the error set: getpeername() of a listening socket raises
\* socket.error (ENOTCONN)
ErrorOnListener ==
  /\ pc = "errors"
  /\ Head(errors) = server
  /\ ReturnFalse("ENOTCONN")
  /\ UNCHANGED <<inputs, outputs, messages, drainIdx,
                 nextId, closed, enq, sent, atShutdown>>

\* ---- except (KeyboardInterrupt, StopIteration): for client in inputs ----
\* `if client is server: continue`
DrainSkip ==
  /\ pc = "drain"
  /\ drainIdx <= Len(inputs)
  /\ inputs[drainIdx] = server
  /\ drainIdx' = drainIdx + 1
  /\ UNCHANGED <<pc, inputs, outputs, messages, reads, writes, errors, nextId,
                 result, exc, closed, enq, sent, atShutdown>>

\* a drain loop that stops one chunk early
DrainDoneEarly(q) == Len(q) <= 1

\* get_nowait raises Empty in the drain loop
DrainDone(q) == q = <<>>

\* a close placed after the try block instead of in `finally`
DrainReleaseNoFinally(cl, c, failed) == IF failed THEN cl ELSE Close(cl, c)

\* the `finally: client.close()` of the handler; failed = the send raised
DrainRelease(cl, c, failed) == Close(cl, c)

\* one turn of `while True`: get_nowait, client.send(message)
DrainSend ==
  /\ pc = "drain"
  /\ drainIdx <= Len(inputs)
  /\ inputs[drainIdx] \in DOMAIN messages
  /\ ~DrainDone(messages[inputs[drainIdx]])
  /\ LET c == inputs[drainIdx]
         message == QueueGet(messages[c]) IN
       /\ messages' = [messages EXCEPT ![c] = Tail(@)]
       /\ \E n \in SendCounts(message) :
            sent' = [sent EXCEPT ![c] = Append(@, <<message, n>>)]
  /\ UNCHANGED <<pc, inputs, outputs, reads, writes, errors, drainIdx, nextId,
                 result, exc, closed, enq, atShutdown>>

\* client.send raises socket.error: `pass`, then finally close
DrainSendFail ==
  /\ pc = "drain"
  /\ drainIdx <= Len(inputs)
  /\ inputs[drainIdx] \in DOMAIN messages
  /\ ~DrainDone(messages[inputs[drainIdx]])
  /\ LET c == inputs[drainIdx]
         message == QueueGet(messages[c]) IN
       /\ messages' = [messages EXCEPT ![c] = Tail(@)]
       /\ sent' = [sent EXCEPT ![c] = Append(@, <<message, 0>>)]
       /\ closed' = DrainRelease(closed, c, TRUE)
  /\ drainIdx' = drainIdx + 1
  /\ UNCHANGED <<pc, inputs, outputs, reads, writes, errors, nextId, result,
                 exc, enq, atShutdown>>

\* the queue is empty: break, time.sleep(0.1), finally close
DrainClose ==
  /\ pc = "drain"
  /\ drainIdx <= Len(inputs)
  /\ inputs[drainIdx] # server
  /\ inputs[drainIdx] \in DOMAIN messages => DrainDone(messages[inputs[drainIdx]])
  /\ closed' = DrainRelease(closed, inputs[drainIdx], FALSE)
  /\ drainIdx' = drainIdx + 1
  /\ UNCHANGED <<pc, inputs, outputs, messages, reads, writes, errors, nextId,
                 result, exc, enq, sent, atShutdown>>

\* KeyboardInterrupt inside the handler (in send or in sleep): the finally
\* closes the client at hand and the exception leaves server()
DrainInterrupt ==
  /\ pc = "drain"
  /\ drainIdx <= Len(inputs)
  /\ inputs[drainIdx] # server
  /\ closed' = DrainRelease(closed, inputs[drainIdx], FALSE)
  /\ pc' = "returned"
  /\ result' = "raised"
  /\ UNCHANGED <<inputs, outputs, messages, reads, writes, errors, drainIdx,
                 nextId, exc, enq, sent, atShutdown>>

\* the for loop is over: return True
DrainReturn ==
  /\ pc = "drain"
  /\ drainIdx > Len(inputs)
  /\ pc' = "returned"
  /\ result' = "true"
  /\ UNCHANGED <<inputs, outputs, messages, reads, writes, errors, drainIdx,
                 nextId, exc, closed, enq, sent, atShutdown>>

\* ---- main(): `with closing(sock)` closes the listener when server() ends
MainExit ==
  /\ pc = "returned"
  /\ closed' = Close(closed, server)
  /\ pc' = "exit"
  /\ UNCHANGED <<inputs, outputs, messages, reads, writes, errors, drainIdx,
                 nextId, result, exc, enq, sent, atShutdown>>

Next ==
  \/ Listen \/ Poll \/ PollFatal \/ PollTransient \/ Interrupt
  \/ Accept \/ AcceptFail \/ RecvData \/ RecvStop \/ RecvEOF \/ RecvFail
  \/ WriteSkip \/ WriteEmpty \/ WriteSend \/ WriteFail
  \/ ErrorEvent \/ ErrorOnClosed \/ ErrorOnListener
  \/ DrainSkip \/ DrainSend \/ DrainSendFail \/ DrainClose \/ DrainInterrupt
  \/ DrainReturn \/ MainExit

Spec == Init /\ [][Next]_vars

\* a step of the shutdown handler
DrainStep ==
  \/ DrainSkip \/ DrainSend \/ DrainSendFail \/ DrainClose \/ DrainInterrupt
  \/ DrainReturn

\* the handler is straight-line code over non-blocking sockets and a sleep
\* of 0.1 s: once entered it keeps taking steps
FairSpec == Spec /\ WF_vars(DrainStep)

TypeOK ==
  /\ pc \in Running \cup {"start", "drain", "returned", "exit"}
  /\ Range(inputs) \subseteq Socks
  /\ Range(outputs) \subseteq Clients
  /\ DOMAIN messages \subseteq Clients
  /\ result \in {"none", "true", "false", "raised"}

\* ---- what was read, what was sent ----------------------------------------
\* the chunks handed to send() for client c, in call order
SentChunks(c) == [i \in 1..Len(sent[c]) |-> sent[c][i][1]]

\* the bytes the send() calls for client c took, notice excluded
EchoedBytes(c) ==
  Flatten([i \in 1..Len(sent[c]) |->
             IF sent[c][i][1] = Notice THEN <<>>
             ELSE SubSeq(sent[c][i][1], 1, sent[c][i][2])])

\* the bytes read from client c and queued for echo
ReceivedBytes(c) == Flatten(SelectSeq(enq[c], LAMBDA ch : ch # Notice))

\* the send() calls made for client c by the shutdown handler
DrainSends(c) == SubSeq(sent[c], atShutdown.nsent[c] + 1, Len(sent[c]))

DrainChunks(c) == [i \in 1..Len(DrainSends(c)) |-> DrainSends(c)[i][1]]

\* every send() the handler made for c took the whole chunk
DrainSendsOk(c) ==
  \A i \in 1..Len(DrainSends(c)) :
    DrainSends(c)[i][2] = Len(DrainSends(c)[i][1])

ShutdownSeen == exc \in {"StopIteration", "KeyboardInterrupt"}

\* ---- claims -------------------------------------------------------------
\* C1: every payload other than 'stop' read from a client is sent back on
\* that client in full and in order, nothing dropped: once the sends have
\* emptied a live client's queue (none of them raising), the bytes they took
\* are the bytes read from it; and when the client half-closes and the
\* server reads the end of file, the bytes read from it have been sent back.
EchoProperty ==
  /\ [](\A c \in DOMAIN messages :
          (/\ messages[c] = <<>>
           /\ \A i \in 1..Len(sent[c]) : sent[c][i][2] > 0)
          => EchoedBytes(c) = ReceivedBytes(c))
  /\ [][RecvEOF => EchoedBytes(Head(reads)) = ReceivedBytes(Head(reads))]_vars

\* C2: per connection, chunks are handed to send() in the order they were
\* put on the queue, over the write path and the drain path together: the
\* chunks sent so far are a prefix of the chunks enqueued.
FifoOrder ==
  \A c \in Clients : IsPrefix(SentChunks(c), enq[c])

\* two different chunks of one client, the first sent by the write loop and
\* the second by the drain
FifoOrderWitness ==
  \E c \in Clients :
    /\ ShutdownSeen
    /\ Len(sent[c]) = 2
    /\ atShutdown.nsent[c] = 1
    /\ sent[c][1][1] # sent[c][2][1]

\* C3: a recv or send failure on one client tears down only that client: the
\* loop stays RUNNING and every other client keeps its queue and its place
\* in inputs, outputs and messages.
Isolation ==
  [][(RecvFail \/ WriteFail) =>
       /\ pc' \in Running
       /\ result' = "none"
       /\ \A b \in DOMAIN messages \ {IF pc = "reads" THEN Head(reads) ELSE Head(writes)} :
            /\ b \in DOMAIN messages'
            /\ messages'[b] = messages[b]
            /\ (b \in Range(inputs')) = (b \in Range(inputs))
            /\ (b \in Range(outputs')) = (b \in Range(outputs))]_vars

\* C4: the chunks a live client had queued when 'stop' was read have all
\* been handed to send(), in order, by the time the handler has closed that
\* client, provided every send to that client took its chunk; for every
\* client in inputs, whatever happened to the sends of the others.
DrainCompleteness ==
  \A c \in atShutdown.live :
    (/\ exc = "StopIteration"
     /\ result # "raised"
     /\ closed[c] > 0
     /\ DrainSendsOk(c))
    => IsPrefix(atShutdown.q[c], DrainChunks(c))

\* run returned true after 'stop'; the send to the first client raised and
\* the second client still got the chunk it had queued
DrainCompletenessWitness ==
  /\ exc = "StopIteration"
  /\ result = "true"
  /\ \E c, d \in atShutdown.live :
       /\ d < c
       /\ atShutdown.q[c] # <<>>
       /\ DrainSendsOk(c)
       /\ DrainChunks(c) # <<>>
       /\ DrainSends(d) # <<>>
       /\ DrainSends(d)[Len(DrainSends(d))][2] = 0

\* C5: once server() has returned true after a shutdown, every client that
\* was in inputs at the shutdown has been closed exactly once, and once
\* main() has left its with-block the listener is closed too.
NoSocketLeak ==
  /\ (ShutdownSeen /\ result = "true")
       => \A c \in atShutdown.live : closed[c] = 1
  /\ (ShutdownSeen /\ result = "true" /\ pc = "exit")
       => closed[server] = 1

\* a shutdown with two live clients where a drain send to the first raised
NoSocketLeakWitness ==
  /\ pc = "exit"
  /\ result = "true"
  /\ ShutdownSeen
  /\ Cardinality(atShutdown.live) = 2
  /\ \E d \in atShutdown.live :
       /\ DrainSends(d) # <<>>
       /\ DrainSends(d)[Len(DrainSends(d))][2] = 0

\* C6: once 'stop' or an interrupt has been seen, server() ends by returning
\* true: it never returns false and no exception leaves it.
ShutdownAlwaysSucceeds ==
  ShutdownSeen => result \in {"none", "true"}

\* C7: when listen() fails, server() returns false at once: the loop is not
\* entered, nothing is accepted and the registry stays empty.
FatalSetup ==
  exc = "listen" =>
    /\ pc \in {"returned", "exit"}
    /\ result = "false"
    /\ inputs = <<>>
    /\ nextId = 1
    /\ DOMAIN messages = {}

FatalSetupWitness ==
  /\ exc = "listen"
  /\ pc = "returned"

\* C8: between ticks, the keys of messages are the sockets of inputs other
\* than the listener, inputs holds no socket twice, and the listener has no
\* entry in messages.
RegistryInvariant ==
  pc = "poll" =>
    /\ DOMAIN messages = Range(inputs) \ {server}
    /\ Cardinality(Range(inputs)) = Len(inputs)
    /\ server \notin DOMAIN messages

\* between ticks, after one client was torn down and another is still live
RegistryInvariantWitness ==
  /\ pc = "poll"
  /\ \E c, d \in Clients :
       /\ closed[c] = 1
       /\ d \in DOMAIN messages
       /\ d \in Range(inputs)

\* C9 as stated: between ticks, every socket in outputs has an entry in
\* messages whose queue is not empty.
WritableNonEmpty ==
  pc = "poll" =>
    \A s \in Range(outputs) : s \in DOMAIN messages /\ messages[s] # <<>>

\* C9 as amended: between ticks, every socket in outputs has an entry in
\* messages, and its queue is either non-empty or was emptied by sends: all
\* the chunks put on it have been handed to send().
WritableRegistered ==
  pc = "poll" =>
    \A s \in Range(outputs) :
      /\ s \in DOMAIN messages
      /\ messages[s] = <<>> => (sent[s] # <<>> /\ SentChunks(s) = enq[s])

\* between ticks, a client whose last chunk was sent is still in outputs
WritableRegisteredWitness ==
  /\ pc = "poll"
  /\ \E s \in Range(outputs) :
       /\ s \in DOMAIN messages
       /\ messages[s] = <<>>
       /\ sent[s] # <<>>

\* C10: when the errors loop reaches a socket the reads loop of the same
\* tick has already closed, nothing is raised: the loop stays RUNNING and
\* the socket is in neither list and has no entry in messages.
IdempotentClose ==
  [][(pc = "errors" /\ closed[Head(errors)] > 0 /\ exc' # "KeyboardInterrupt") =>
       /\ pc' \in Running
       /\ result' = "none"
       /\ Head(errors) \notin DOMAIN messages'
       /\ Head(errors) \notin Range(inputs')
       /\ Head(errors) \notin Range(outputs')]_vars

\* C11: whatever the interleaving of the clients' events, each chunk handed
\* to send() for a client was read from that same client, or is the notice
\* put on its queue when that client sent 'stop'; no client is sent more
\* chunks than were queued for it, and the notice goes to one client only.
NoCrossTalk ==
  /\ \A c \in Clients :
       /\ Len(sent[c]) <= Len(enq[c])
       /\ \A i \in 1..Len(sent[c]) :
            /\ sent[c][i][1] \in Range(enq[c])
            /\ sent[c][i][1] = Notice =>
                 (exc = "StopIteration" /\ i > atShutdown.nsent[c])
  /\ \A c, d \in Clients :
       (Notice \in Range(enq[c]) /\ Notice \in Range(enq[d])) => c = d

\* two clients, each sent a chunk of its own, the two chunks different
NoCrossTalkWitness ==
  \E c, d \in Clients :
    /\ c # d
    /\ sent[c] # <<>>
    /\ sent[d] # <<>>
    /\ sent[c][1][1] # sent[d][1][1]
    /\ sent[c][1][1] \in Range(enq[c])
    /\ sent[d][1][1] \notin Range(enq[c])

\* C12: when 'stop' is read during a tick, the drain begins only after the
\* rest of that tick's select result has been processed: at the step into
\* the handler no other readable socket and no writable socket of the tick
\* is left unvisited.
CooperativeShutdown ==
  [][RecvStop => (Tail(reads) = <<>> /\ writes = <<>>)]_vars

\* the loop state a position of server() belongs to
LoopState(p) ==
  IF p \in Running THEN "RUNNING"
  ELSE IF p = "drain" THEN "DRAINING"
  ELSE IF p \in {"returned", "exit"} THEN "STOPPED"
  ELSE "SETUP"

\* what a read does: 'stop' puts the notice at the tail of the reader's
\* queue and enters the handler, any other chunk keeps the loop running;
\* the bytes 'stop' are never queued nor sent
StopCommand ==
  /\ RecvStop =>
       /\ messages'[Head(reads)] = Append(messages[Head(reads)], Notice)
       /\ \A b \in DOMAIN messages \ {Head(reads)} : messages'[b] = messages[b]
       /\ LoopState(pc') = "DRAINING"
  /\ RecvData =>
       /\ LoopState(pc') = "RUNNING"
       /\ ~IsStop(enq'[Head(reads)][Len(enq'[Head(reads)])])
  /\ \A c \in Clients :
       /\ Stop \notin Range(enq'[c])
       /\ \A i \in 1..Len(sent'[c]) : sent'[c][i][1] # Stop

\* the step changes the loop state along one of the pairs of T, and enters
\* DRAINING only on 'stop' or an interrupt
LoopStep(T) ==
  (LoopState(pc) # "SETUP" /\ LoopState(pc') # LoopState(pc)) =>
    /\ <<LoopState(pc), LoopState(pc')>> \in T
    /\ LoopState(pc') = "DRAINING" =>
         exc' \in {"StopIteration", "KeyboardInterrupt"}
    /\ (LoopState(pc) = "RUNNING" /\ LoopState(pc') = "STOPPED") =>
         result' = "false"

\* C13 as stated: a chunk equal to 'stop' puts the notice at the tail of the
\* reader's queue, is itself neither queued nor echoed, and moves the loop
\* to DRAINING; any other chunk leaves it RUNNING; the loop state changes
\* only from RUNNING to DRAINING and from DRAINING to STOPPED.
StopHandling ==
  [][StopCommand
     /\ LoopStep({<<"RUNNING", "DRAINING">>, <<"DRAINING", "STOPPED">>})]_vars

\* C13 as amended: the same, with the third change of loop state the code
\* has: from RUNNING straight to STOPPED, returning false, when an exception
\* other than the two shutdown signals ends the loop.
StopHandlingOrFailure ==
  [][StopCommand
     /\ LoopStep({<<"RUNNING", "DRAINING">>, <<"DRAINING", "STOPPED">>,
                  <<"RUNNING", "STOPPED">>})]_vars

\* the handler was just entered on a 'stop' whose reader had 'sto' queued:
\* the near miss stayed a data chunk and the notice went behind it
StopHandlingWitness ==
  /\ pc = "drain"
  /\ drainIdx = 1
  /\ exc = "StopIteration"
  /\ \E c \in DOMAIN messages : messages[c] = << <<"s", "t", "o">>, Notice >>

\* C14: whichever socket of the error set the errors loop visits, the
\* socket leaves outputs and inputs, is closed and loses its entry in
\* messages, the loop stays RUNNING, and the other entries are unchanged.
ErrorReadiness ==
  [][(pc = "errors" /\ closed[Head(errors)] = 0 /\ exc' # "KeyboardInterrupt") =>
       /\ pc' \in Running
       /\ result' = "none"
       /\ Head(errors) \notin Range(outputs')
       /\ Head(errors) \notin Range(inputs')
       /\ closed'[Head(errors)] = 1
       /\ Head(errors) \notin DOMAIN messages'
       /\ \A b \in DOMAIN messages \ {Head(errors)} :
            b \in DOMAIN messages' /\ messages'[b] = messages[b]]_vars

\* C15: a select failure with EAGAIN or EINTR leaves inputs, outputs and
\* messages as they were and the loop polls again; a select failure with
\* any other errno ends the loop and server() returns false.
PollFailureHandling ==
  /\ [](exc \in {"EAGAIN", "EINTR"} => (pc \in Running /\ result = "none"))
  /\ [](exc \in SelectErrnos \ {"EAGAIN", "EINTR"} =>
          (pc \in {"returned", "exit"} /\ result = "false"))
  /\ [][(pc = "poll" /\ exc' \in SelectErrnos /\ exc' # exc) =>
          UNCHANGED <<inputs, outputs, messages>>]_vars

\* a select interrupted with two clients registered, one of them in
\* outputs, followed by a new select that reported something
PollFailureHandlingWitness ==
  /\ exc \in {"EAGAIN", "EINTR"}
  /\ pc = "reads"
  /\ Len(inputs) = 3
  /\ outputs # <<>>

\* C16: a read of zero bytes from client c removes c from outputs and from
\* inputs, closes it and deletes its entry in messages with whatever is
\* still queued, in that step; the listener and the other clients keep
\* their entries, their queues and their places in inputs and outputs.
PeerClose ==
  [][RecvEOF =>
       /\ Head(reads) \notin Range(outputs')
       /\ Head(reads) \notin Range(inputs')
       /\ closed'[Head(reads)] = closed[Head(reads)] + 1
       /\ Head(reads) \notin DOMAIN messages'
       /\ DOMAIN messages' = DOMAIN messages \ {Head(reads)}
       /\ \A b \in DOMAIN messages' : messages'[b] = messages[b]
       /\ \A b \in Socks \ {Head(reads)} : closed'[b] = closed[b]
       /\ inputs' = SelectSeq(inputs, LAMBDA x : x # Head(reads))
       /\ outputs' = SelectSeq(outputs, LAMBDA x : x # Head(reads))
       /\ server \in Range(inputs')
       /\ pc' \in Running]_vars

\* still in the reads loop: a client this tick's select also reported
\* writable has been closed with a chunk unsent, and another client is
\* registered with a chunk queued
PeerCloseWitness ==
  /\ pc = "reads"
  /\ \E c \in Range(writes), d \in DOMAIN messages :
       /\ closed[c] = 1
       /\ c \notin DOMAIN messages
       /\ Len(sent[c]) < Len(enq[c])
       /\ messages[d] # <<>>
       /\ d \in Range(outputs)

\* C17: once the handler is entered the loop never polls, accepts or reads
\* again; the handler walks inputs once, front to back, one position at a
\* time, each step either sending one queued chunk or moving on, and
\* server() ends after finitely many steps.
DrainTermination ==
  /\ (pc = "drain") ~> (pc \in {"returned", "exit"})
  /\ [](ShutdownSeen => pc \notin Running)
  /\ []((pc \in {"returned", "exit"} /\ result = "true") =>
          drainIdx = Len(inputs) + 1)
  /\ [][pc = "drain" =>
          /\ pc' \in {"drain", "returned"}
          /\ inputs' = inputs
          /\ nextId' = nextId
          /\ enq' = enq
          /\ reads' = <<>> /\ writes' = <<>> /\ errors' = <<>>
          /\ drainIdx' \in {drainIdx, drainIdx + 1}
          /\ (drainIdx' = drainIdx /\ pc' = "drain") =>
               Len(messages'[inputs[drainIdx]]) < Len(messages[inputs[drainIdx]])
          /\ \A c \in Clients : closed'[c] > closed[c] => c = inputs[drainIdx]]_vars

\* the handler has returned after walking two clients, one of which had
\* two chunks to send
DrainTerminationWitness ==
  /\ pc = "returned"
  /\ result = "true"
  /\ drainIdx = 4
  /\ \E c \in atShutdown.live : Len(DrainSends(c)) = 2

\* C18: between ticks every registered client with a chunk queued is in
\* outputs; a client leaves outputs only when the writes loop finds its
\* queue empty or when it is closed.
NoStrandedData ==
  /\ [](pc = "poll" =>
          \A c \in DOMAIN messages : messages[c] # <<>> => c \in Range(outputs))
  /\ [][\A c \in Range(outputs) \ Range(outputs') :
          \/ pc = "writes" /\ Head(writes) = c /\ messages[c] = <<>>
          \/ closed'[c] = closed[c] + 1]_vars

\* between ticks, a client that has had one chunk sent and has another one
\* queued
NoStrandedDataWitness ==
  /\ pc = "poll"
  /\ \E c \in DOMAIN messages :
       /\ Len(sent[c]) = 1
       /\ Len(messages[c]) = 1
       /\ c \in Range(outputs)

\* C19: a client closed by the reads loop that the same select reported
\* writable is passed over by the writes loop, nothing popped and nothing
\* sent; between ticks a closed client is in neither list; and no step of the
\* running loop calls recv or send on a closed socket.
NoIoOnClosed ==
  /\ [][(pc = "writes" /\ closed[Head(writes)] > 0 /\ exc' # "KeyboardInterrupt") =>
          /\ sent' = sent
          /\ messages' = messages
          /\ writes' = Tail(writes)
          /\ pc' \in Running]_vars
  /\ [][(RecvData \/ RecvStop \/ RecvEOF \/ RecvFail) =>
          closed[Head(reads)] = 0]_vars
  /\ [][(WriteSend \/ WriteFail) => closed[Head(writes)] = 0]_vars
  /\ [](pc = "poll" =>
          \A c \in Clients :
            closed[c] > 0 => (c \notin Range(inputs) /\ c \notin Range(outputs)))

\* the writes loop stands at a client the reads loop of this tick closed
NoIoOnClosedWitness ==
  /\ pc = "writes"
  /\ closed[Head(writes)] = 1
  /\ Head(writes) \notin DOMAIN messages
  /\ Len(sent[Head(writes)]) < Len(enq[Head(writes)])

\* C20: between ticks outputs holds only registered clients, none of them
\* twice and never the listener; and the listener is in inputs at every
\* position of the running loop.
InterestContainment ==
  /\ pc = "poll" =>
       /\ Range(outputs) \subseteq DOMAIN messages
       /\ Cardinality(Range(outputs)) = Len(outputs)
       /\ server \notin Range(outputs)
  /\ pc \in Running => server \in Range(inputs)

\* between ticks, a client that was read twice is in outputs
InterestContainmentWitness ==
  /\ pc = "poll"
  /\ \E c \in Range(outputs) : Len(enq[c]) = 2

====
